---- MODULE Spec2Model ----
(***************************************************************************)
(* A model of geohashing.py: the xkcd #426 geohash, the globalhash and     *)
(* the centicule adjustment, with the Dow Jones index fetched from an      *)
(* ordered list of sources.                                                *)
(*                                                                         *)
(* Python strings are sequences of one-character strings.  A Python float  *)
(* is an IEEE-754 binary64 value, kept exactly as a record                 *)
(*     [neg |-> sign, ip |-> integer part, fb |-> fraction bits]           *)
(* whose value is (-1)^neg * (ip + SUM fb[i] * 2^-i); fb never ends in 0   *)
(* and the number of significant bits never exceeds 53.                    *)
(***************************************************************************)
EXTENDS Integers, Sequences, FiniteSets, TLC

(***************************************************************************)
(* Characters, digits, small arithmetic.                                   *)
(***************************************************************************)
DecChars == <<"0", "1", "2", "3", "4", "5", "6", "7", "8", "9">>
HexChars == <<"0", "1", "2", "3", "4", "5", "6", "7", "8", "9",
              "a", "b", "c", "d", "e", "f">>

IsDigit(c) == \E d \in 1..10 : DecChars[d] = c
DigitVal(c) == (CHOOSE d \in 1..10 : DecChars[d] = c) - 1
DigitChar(d) == DecChars[d + 1]
HexVal(c) == (CHOOSE d \in 1..16 : HexChars[d] = c) - 1

\* Forces a function with domain 1..n into an evaluated sequence.
Seqd(f) == f \o <<>>

Zeros(n) == Seqd([i \in 1..n |-> 0])

\* TRUE; evaluating it evaluates x, which keeps nested evaluations shallow.
Done(x) == x = x

RECURSIVE Pow2(_)
Pow2(n) == IF n = 0 THEN 1 ELSE 2 * Pow2(n - 1)

RECURSIVE BitLen(_)
BitLen(n) == IF n = 0 THEN 0 ELSE 1 + BitLen(n \div 2)

\* The digits of a sequence up to its last non-zero one.
TrimZeros(s) ==
    LET nz == {i \in 1..Len(s) : s[i] # 0}
    IN  IF nz = {} THEN <<>>
        ELSE SubSeq(s, 1, CHOOSE i \in nz : \A j \in nz : j <= i)

\* The number of zeros a sequence starts with.
LeadZeros(s) ==
    LET nz == {i \in 1..Len(s) : s[i] # 0}
    IN  IF nz = {} THEN Len(s)
        ELSE (CHOOSE i \in nz : \A j \in nz : i <= j) - 1

\* Decimal digits of a natural number, most significant first; <<>> for 0.
RECURSIVE DecNat(_)
DecNat(n) == IF n = 0 THEN <<>> ELSE Append(DecNat(n \div 10), n % 10)

RECURSIVE NatOfDigits(_)
NatOfDigits(ds) ==
    IF ds = <<>> THEN 0
    ELSE 10 * NatOfDigits(SubSeq(ds, 1, Len(ds) - 1)) + ds[Len(ds)]

(***************************************************************************)
(* binary64 values.                                                        *)
(***************************************************************************)
MantissaBits == 53

Float(neg, ip, fb) == [neg |-> neg, ip |-> ip, fb |-> fb]

\* Adds one unit in the last place of the kept bits.
IncBits(ip, kept) ==
    LET zs == {i \in 1..Len(kept) : kept[i] = 0}
    IN  IF zs = {} THEN [ip |-> ip + 1, fb |-> <<>>]
        ELSE LET j == CHOOSE i \in zs : \A k \in zs : k <= i
             IN  [ip |-> ip, fb |-> Append(SubSeq(kept, 1, j - 1), 1)]

\* Subtracts one unit in the last place of the bits (the value is positive).
DecBits(ip, bits) ==
    LET os == {i \in 1..Len(bits) : bits[i] = 1}
    IN  IF os = {} THEN [ip |-> ip - 1, fb |-> Seqd([i \in 1..Len(bits) |-> 1])]
        ELSE LET j == CHOOSE i \in os : \A k \in os : k <= i
             IN  [ip |-> ip,
                  fb |-> Seqd([i \in 1..Len(bits) |->
                                 IF i < j THEN bits[i] ELSE IF i = j THEN 0 ELSE 1])]

\* Number of fraction bits a binary64 keeps for a value ip + 0.fb.
KeptBits(ip, fb) ==
    IF ip > 0 THEN MantissaBits - BitLen(ip) ELSE LeadZeros(fb) + MantissaBits

\* Round-to-nearest, ties-to-even, of the exact value ip + 0.fb (+ a non-zero
\* remainder below the last bit of fb when sticky).
RoundDouble(neg, ip, fb, sticky) ==
    LET k == KeptBits(ip, fb)
    IN  IF Len(fb) <= k THEN Float(neg, ip, TrimZeros(fb))
        ELSE LET kept == SubSeq(fb, 1, k)
                 r    == fb[k + 1]
                 st   == sticky \/ \E i \in (k + 2)..Len(fb) : fb[i] = 1
                 lsb  == IF k = 0 THEN ip % 2 ELSE kept[k]
             IN  IF r = 1 /\ (st \/ lsb = 1)
                 THEN LET up == IncBits(ip, kept)
                      IN  Float(neg, up.ip, TrimZeros(up.fb))
                 ELSE Float(neg, ip, TrimZeros(kept))

\* float.fromhex("0." + h) for a string h of hexadecimal digits.
float_fromhex(h) ==
    LET bits == Seqd([i \in 1..(4 * Len(h)) |->
                        (HexVal(h[((i - 1) \div 4) + 1]) \div Pow2(3 - ((i - 1) % 4))) % 2])
    IN  RoundDouble(FALSE, 0, bits, FALSE)

(***************************************************************************)
(* Exact decimal expansions.                                               *)
(***************************************************************************)
\* The decimal digits of (b + 0.v) / 2, for a bit b and decimal digits v.
HalfDec(b, v) ==
    Seqd([i \in 1..(Len(v) + 1) |->
            LET prev == IF i = 1 THEN b ELSE v[i - 1]
                cur  == IF i <= Len(v) THEN v[i] ELSE 0
            IN  ((prev % 2) * 10 + cur) \div 2])

\* The decimal digits of 0.fb, exactly (Len(fb) digits): bits hi down to lo
\* are pushed in front of the digits v, one halving each.
RECURSIVE DecFracRange(_, _, _, _)
DecFracRange(fb, lo, hi, v) ==
    IF lo > hi THEN v
    ELSE IF lo = hi THEN HalfDec(fb[lo], v)
    ELSE LET mid == (lo + hi) \div 2
             low == DecFracRange(fb, mid + 1, hi, v)
         IN  IF Done(low) THEN DecFracRange(fb, lo, mid, low) ELSE low

DecFrac(fb) == DecFracRange(fb, 1, Len(fb), <<>>)

\* A positive decimal number 0.ds * 10^pt with ds[1] # 0 and no trailing zero.
Dec(ds, pt) == [ds |-> ds, pt |-> pt]

\* The exact decimal value of ip + 0.fb (not zero).
DecOf(ip, fb) ==
    LET id  == DecNat(ip)
        all == id \o DecFrac(fb)
        lz  == LeadZeros(all)
    IN  Dec(TrimZeros(SubSeq(all, lz + 1, Len(all))), Len(id) - lz)

DigitAt(ds, i) == IF i <= Len(ds) THEN ds[i] ELSE 0

DecLess(a, b) ==
    IF a.pt # b.pt THEN a.pt < b.pt
    ELSE LET n    == IF Len(a.ds) > Len(b.ds) THEN Len(a.ds) ELSE Len(b.ds)
             diff == {i \in 1..n : DigitAt(a.ds, i) # DigitAt(b.ds, i)}
         IN  diff # {} /\
             LET j == CHOOSE i \in diff : \A k \in diff : i <= k
             IN  DigitAt(a.ds, j) < DigitAt(b.ds, j)

\* x cut to its first p significant digits.
DecFloor(x, p) == Dec(TrimZeros(SubSeq(x.ds, 1, p)), x.pt)

\* The next p-digit decimal above DecFloor(x, p).
DecCeil(x, p) ==
    LET hd == SubSeq(x.ds, 1, p)
        n9 == {i \in 1..Len(hd) : hd[i] # 9}
    IN  IF n9 = {} THEN Dec(<<1>>, x.pt + 1)
        ELSE LET j == CHOOSE i \in n9 : \A k \in n9 : k <= i
             IN  Dec(Append(SubSeq(hd, 1, j - 1), hd[j] + 1), x.pt)

Min(a, b) == IF a < b THEN a ELSE b

(***************************************************************************)
(* str(float): the shortest decimal string that reads back as the same     *)
(* binary64 (and of those the closest to it), laid out as repr does.       *)
(***************************************************************************)
ReprMaxDigits == 17

\* c lies in the interval of the decimals that round to the value: between
\* the midpoints LO and HI to its neighbours, which belong to the interval
\* when the value's last bit is even.
InRange(c, LO, HI, even) ==
    IF even THEN ~DecLess(c, LO) /\ ~DecLess(HI, c)
    ELSE DecLess(LO, c) /\ DecLess(c, HI)

\* Some decimal of p digits rounds to X.
DigitsOk(X, LO, HI, even, p) ==
    \/ Len(X.ds) <= p
    \/ InRange(DecFloor(X, p), LO, HI, even)
    \/ InRange(DecCeil(X, p), LO, HI, even)

\* Of the p-digit decimals F below and C above X that round to X, the one
\* nearest to X (ties to the even digit).
Nearest(X, F, C, inF, inC, p) ==
    LET rest  == SubSeq(X.ds, p + 1, Len(X.ds))
        upper == \/ rest[1] > 5
                 \/ (rest[1] = 5 /\ Len(rest) > 1)
                 \/ (rest[1] = 5 /\ Len(rest) = 1 /\ X.ds[p] % 2 = 1)
    IN  IF inF /\ inC THEN (IF upper THEN C ELSE F)
        ELSE IF inF THEN F ELSE C

ShortestOf(X, LO, HI, even, p) ==
    IF Len(X.ds) <= p THEN X
    ELSE Nearest(X, DecFloor(X, p), DecCeil(X, p),
                 InRange(DecFloor(X, p), LO, HI, even),
                 InRange(DecCeil(X, p), LO, HI, even), p)

ShortestIn(X, LO, HI, even) ==
    ShortestOf(X, LO, HI, even,
               CHOOSE n \in 1..ReprMaxDigits :
                   /\ DigitsOk(X, LO, HI, even, n)
                   /\ \A m \in 1..(n - 1) : ~DigitsOk(X, LO, HI, even, m))

\* The midpoint between the value and the binary64 below it, which is half
\* as far when the value is a power of two.
LowerMid(below, pow2) ==
    DecOf(below.ip, below.fb \o (IF pow2 THEN <<1, 1>> ELSE <<1>>))

ShortestPadded(ip, fb, padded, pow2) ==
    ShortestIn(DecOf(ip, fb), LowerMid(DecBits(ip, padded), pow2),
               DecOf(ip, Append(padded, 1)), padded[Len(padded)] = 0)

\* The shortest decimal that rounds to the non-zero value ip + 0.fb.
ShortestDec(ip, fb) ==
    ShortestPadded(ip, fb, fb \o Zeros(KeptBits(ip, fb) - Len(fb)),
                   IF ip > 0 THEN fb = <<>> /\ ip = Pow2(BitLen(ip) - 1)
                   ELSE Len(fb) = LeadZeros(fb) + 1)

Chars(ds) == Seqd([i \in 1..Len(ds) |-> DigitChar(ds[i])])

Repeat(c, n) == Seqd([i \in 1..n |-> c])

\* The layout of repr: exponent form when the decimal point position is
\* <= -4 or > 16, otherwise positional with at least one fractional digit.
FormatShort(d) ==
    LET n == Len(d.ds)
        cs == Chars(d.ds)
    IN  IF d.pt <= -4 \/ d.pt > 16
        THEN LET e  == d.pt - 1
                 ae == IF e < 0 THEN -e ELSE e
                 ed == IF ae < 10 THEN <<0, ae>> ELSE DecNat(ae)
             IN  <<cs[1]>> \o (IF n > 1 THEN <<".">> \o SubSeq(cs, 2, n) ELSE <<>>)
                 \o <<"e", IF e < 0 THEN "-" ELSE "+">> \o Chars(ed)
        ELSE IF d.pt <= 0 THEN <<"0", ".">> \o Repeat("0", -d.pt) \o cs
        ELSE IF d.pt >= n THEN cs \o Repeat("0", d.pt - n) \o <<".", "0">>
        ELSE SubSeq(cs, 1, d.pt) \o <<".">> \o SubSeq(cs, d.pt + 1, n)

\* str(x) for a float x.
float_str(x) ==
    (IF x.neg THEN <<"-">> ELSE <<>>) \o
    (IF x.ip = 0 /\ x.fb = <<>> THEN <<"0", ".", "0">>
     ELSE FormatShort(ShortestDec(x.ip, x.fb)))

\* str(n) for an int n.
int_str(n) ==
    IF n = 0 THEN <<"0">>
    ELSE IF n < 0 THEN <<"-">> \o Chars(DecNat(-n)) ELSE Chars(DecNat(n))

(***************************************************************************)
(* float(s): the binary64 nearest to the decimal number the string spells. *)
(***************************************************************************)
IndexOf(s, c) ==
    LET hit == {i \in 1..Len(s) : s[i] = c}
    IN  IF hit = {} THEN 0 ELSE CHOOSE i \in hit : \A j \in hit : i <= j

DigitVals(cs) == Seqd([i \in 1..Len(cs) |-> DigitVal(cs[i])])

\* The decimal digits of 2 * 0.v below the decimal point.
DoubleDec(v) ==
    Seqd([i \in 1..Len(v) |->
            (2 * v[i] + (IF i < Len(v) /\ v[i + 1] >= 5 THEN 1 ELSE 0)) % 10])

\* One binary digit of the decimal fraction 0.v: st holds the digits still
\* to convert, the bits found, and how many more are needed, counted from
\* the first significant one.  Nothing changes once the digits are all zero
\* or no more bits are needed.
BitStep(st) ==
    IF st.need = 0 \/ \A i \in 1..Len(st.v) : st.v[i] = 0 THEN st
    ELSE LET b  == IF st.v[1] >= 5 THEN 1 ELSE 0
             on == st.started \/ b = 1
         IN  [v |-> DoubleDec(st.v), need |-> IF on THEN st.need - 1 ELSE st.need,
              started |-> on, bits |-> Append(st.bits, b)]

RECURSIVE BitSteps(_, _)
BitSteps(st, n) ==
    IF n = 0 THEN st
    ELSE IF n = 1 THEN BitStep(st)
    ELSE LET half == BitSteps(st, n \div 2)
         IN  IF Done(half) THEN BitSteps(half, n - n \div 2) ELSE half

\* The leading bits of the decimal fraction 0.v and whether a remainder is
\* left below them.  A fraction with z leading decimal zeros has fewer than
\* 4 * (z + 1) leading binary zeros, which bounds the number of steps.
BitsOfDec(v, need, started) ==
    LET end == BitSteps([v |-> v, need |-> need, started |-> started, bits |-> <<>>],
                        4 * (LeadZeros(v) + 1) + need)
    IN  [bits |-> end.bits, sticky |-> \E i \in 1..Len(end.v) : end.v[i] # 0]

\* The binary64 nearest to ip + 0.fd, for decimal digits fd.
ParseDec(neg, ip, got) == RoundDouble(neg, ip, got.bits, got.sticky)

ParseFixed(neg, ip, fd) ==
    ParseDec(neg, ip,
             BitsOfDec(fd, IF ip > 0 THEN MantissaBits - BitLen(ip) + 1
                           ELSE MantissaBits + 1, ip > 0))

\* The decimal point of ints.frac moved by the exponent.
ShiftPoint(neg, ints, frac, eneg, exp) ==
    IF eneg
    THEN ParseFixed(neg,
                    NatOfDigits(SubSeq(ints, 1, Len(ints) - Min(exp, Len(ints)))),
                    Zeros(exp - Min(exp, Len(ints)))
                    \o SubSeq(ints, Len(ints) - Min(exp, Len(ints)) + 1, Len(ints))
                    \o frac)
    ELSE ParseFixed(neg,
                    NatOfDigits(ints \o SubSeq(frac \o Zeros(exp), 1, exp)),
                    SubSeq(frac, Min(exp, Len(frac)) + 1, Len(frac)))

ParseMantissa(neg, mant, dot, eneg, exp) ==
    ShiftPoint(neg,
               DigitVals(IF dot = 0 THEN mant ELSE SubSeq(mant, 1, dot - 1)),
               DigitVals(IF dot = 0 THEN <<>> ELSE SubSeq(mant, dot + 1, Len(mant))),
               eneg, exp)

ParseExponent(neg, mant, ex) ==
    ParseMantissa(neg, mant, IndexOf(mant, "."), ex[1] = "-",
                  NatOfDigits(DigitVals(IF ex[1] \in {"-", "+"} THEN Tail(ex) ELSE ex)))

ParseBody(neg, body, e) ==
    ParseExponent(neg, IF e = 0 THEN body ELSE SubSeq(body, 1, e - 1),
                  IF e = 0 THEN <<"0">> ELSE SubSeq(body, e + 1, Len(body)))

ParseSigned(neg, body) == ParseBody(neg, body, IndexOf(body, "e"))

\* float(s) for a well-formed literal s.
float_parse(s) == ParseSigned(s[1] = "-", IF s[1] = "-" THEN Tail(s) ELSE s)

(***************************************************************************)
(* Float arithmetic: each operation is the exact result, rounded once.     *)
(***************************************************************************)
\* Bits hi down to lo of fb times c, added to the carry from the bits below.
RECURSIVE MulRange(_, _, _, _, _)
MulRange(fb, c, lo, hi, st) ==
    IF lo > hi THEN st
    ELSE IF lo = hi
    THEN LET t == fb[lo] * c + st.carry
         IN  [carry |-> t \div 2, bits |-> <<t % 2>> \o st.bits]
    ELSE LET mid == (lo + hi) \div 2
             low == MulRange(fb, c, mid + 1, hi, st)
         IN  IF Done(low) THEN MulRange(fb, c, lo, mid, low) ELSE low

\* x * c for a float x and a positive int c.
float_mul(x, c) ==
    LET p == MulRange(x.fb, c, 1, Len(x.fb), [carry |-> 0, bits |-> <<>>])
    IN  RoundDouble(x.neg, x.ip * c + p.carry, p.bits, FALSE)

\* x - c for a float x and a positive int c.
float_sub(x, c) ==
    IF x.neg THEN RoundDouble(TRUE, x.ip + c, x.fb, FALSE)
    ELSE IF x.ip >= c THEN RoundDouble(FALSE, x.ip - c, x.fb, FALSE)
    ELSE IF x.fb = <<>> THEN RoundDouble(TRUE, c - x.ip, <<>>, FALSE)
    ELSE RoundDouble(TRUE, c - x.ip - 1,
                     Seqd([i \in 1..Len(x.fb) |->
                             IF i < Len(x.fb) THEN 1 - x.fb[i] ELSE 1]),
                     FALSE)

\* abs(x)
float_abs(x) == Float(FALSE, x.ip, x.fb)

\* int(x): truncation toward zero.
float_int(x) == IF x.neg THEN -x.ip ELSE x.ip

\* x > c for a float x and an int c.
float_gt(x, c) ==
    IF c >= 0 THEN ~x.neg /\ (x.ip > c \/ (x.ip = c /\ x.fb # <<>>))
    ELSE ~x.neg \/ x.ip < -c

(***************************************************************************)
(* str.replace for a pattern and a replacement of two characters whose     *)
(* occurrences cannot overlap (the pattern is "." and a digit).            *)
(***************************************************************************)
str_replace(s, old, new) ==
    LET hits == {i \in 1..(Len(s) - 1) : s[i] = old[1] /\ s[i + 1] = old[2]}
    IN  Seqd([i \in 1..Len(s) |->
                IF i \in hits THEN new[1]
                ELSE IF (i - 1) \in hits THEN new[2]
                ELSE s[i]])

(***************************************************************************)
(* hash_to_location, globalhash's rescaling and replace_tenths.            *)
(***************************************************************************)
HalfLen == 16

\* str(int(u)) + str(float.fromhex("0." + h))[1:], read back as a float.
Splice(u, h) ==
    float_parse(int_str(float_int(u)) \o Tail(float_str(float_fromhex(h))))

hash_to_location(u_lat, u_lon, md5_hash) ==
    LET h1 == SubSeq(md5_hash, 1, HalfLen)
        h2 == SubSeq(md5_hash, HalfLen + 1, Len(md5_hash))
    IN  <<Splice(u_lat, h1), Splice(u_lon, h2)>>

LatScale == 180
LatShift == 90
LonScale == 360
LonShift == 180

\* A rescaling that would leave out the shift.
RescaleUnshifted(loc) ==
    <<float_mul(loc[1], LatScale), float_mul(loc[2], LonScale)>>

\* lat * 180 - 90, lon * 360 - 180
Rescale(loc) ==
    <<float_sub(float_mul(loc[1], LatScale), LatShift),
      float_sub(float_mul(loc[2], LonScale), LonShift)>>

\* int(abs(x) * 10) % 10
Tenths(x) == float_int(float_mul(float_abs(x), 10)) % 10

replace_tenths(dst, src) ==
    LET new_tenths == Tenths(src)
        old_tenths == Tenths(dst)
    IN  float_parse(str_replace(float_str(dst),
                                <<".", DigitChar(old_tenths)>>,
                                <<".", DigitChar(new_tenths)>>))

FloatZero == Float(FALSE, 0, <<>>)

(***************************************************************************)
(* Optional values: None is <<>>, a value v present is <<v>>.              *)
(***************************************************************************)
None == <<>>
Some(v) == <<v>>

(***************************************************************************)
(* datetime.date: records [y, m, d], strftime, strptime, timedelta(-1).    *)
(***************************************************************************)
Date(y, m, d) == [y |-> y, m |-> m, d |-> d]

IsLeap(y) == (y % 4 = 0 /\ y % 100 # 0) \/ y % 400 = 0

DaysIn(y, m) ==
    IF m = 2 THEN (IF IsLeap(y) THEN 29 ELSE 28)
    ELSE IF m \in {4, 6, 9, 11} THEN 30 ELSE 31

MinDate == Date(1, 1, 1)

\* date + timedelta(days=-1), for a date after date.min
PrevDay(dt) ==
    IF dt.d > 1 THEN Date(dt.y, dt.m, dt.d - 1)
    ELSE IF dt.m > 1 THEN Date(dt.y, dt.m - 1, DaysIn(dt.y, dt.m - 1))
    ELSE Date(dt.y - 1, 12, 31)

Pad2(n) == <<DigitChar(n \div 10), DigitChar(n % 10)>>

\* date.strftime("%Y<sep>%m<sep>%d"); %Y is the year's decimal digits.
strftime(dt, sep) ==
    Chars(DecNat(dt.y)) \o <<sep>> \o Pad2(dt.m) \o <<sep>> \o Pad2(dt.d)

NonZeroDigits == {"1", "2", "3", "4", "5", "6", "7", "8", "9"}

\* What %m reads: 1[0-2] | 0[1-9] | [1-9].
IsMonthText(t) ==
    \/ Len(t) = 2 /\ t[1] = "1" /\ t[2] \in {"0", "1", "2"}
    \/ Len(t) = 2 /\ t[1] = "0" /\ t[2] \in NonZeroDigits
    \/ Len(t) = 1 /\ t[1] \in NonZeroDigits

\* What %d reads: 3[0-1] | [1-2]\d | 0[1-9] | [1-9] | " "[1-9].
IsDayText(t) ==
    \/ Len(t) = 2 /\ t[1] = "3" /\ t[2] \in {"0", "1"}
    \/ Len(t) = 2 /\ t[1] \in {"1", "2"} /\ IsDigit(t[2])
    \/ Len(t) = 2 /\ t[1] \in {"0", " "} /\ t[2] \in NonZeroDigits
    \/ Len(t) = 1 /\ t[1] \in NonZeroDigits

\* What %Y reads: four digits.
IsYearText(t) == Len(t) = 4 /\ \A i \in 1..4 : IsDigit(t[i])

\* int() of the text of a field; the day may start with a space.
FieldVal(t) == NatOfDigits(DigitVals(IF t[1] = " " THEN Tail(t) ELSE t))

\* The date of the fields, or no date when there is no such day (ValueError).
DateOfFields(y, m, d) ==
    IF y >= 1 /\ d <= DaysIn(y, m) THEN Some(Date(y, m, d)) ELSE None

\* The text cut at its dashes d1 and d2.
ParseDateFields(ys, ms, ds) ==
    IF IsYearText(ys) /\ IsMonthText(ms) /\ IsDayText(ds)
    THEN DateOfFields(FieldVal(ys), FieldVal(ms), FieldVal(ds))
    ELSE None

ParseDateAt(s, d1, d2) ==
    ParseDateFields(SubSeq(s, 1, d1 - 1), SubSeq(s, d1 + 1, d2 - 1),
                    SubSeq(s, d2 + 1, Len(s)))

\* The text has the two dashes of the format.
ParseDashed(s, dashes) ==
    IF Cardinality(dashes) = 2
    THEN ParseDateAt(s, CHOOSE i \in dashes : \A j \in dashes : i <= j,
                     CHOOSE i \in dashes : \A j \in dashes : j <= i)
    ELSE None

\* datetime.strptime(s, "%Y-%m-%d").date(): the date, or no date when the
\* text does not match the format or names no day (ValueError).  The text
\* is of ASCII characters.
strptime(s) == ParseDashed(s, {i \in 1..Len(s) : s[i] = "-"})

(***************************************************************************)
(* str.strip()                                                             *)
(***************************************************************************)
\* The characters str.strip() removes: those str.isspace() holds of.  The
\* ones a string of this module cannot hold stand by name: U+000B (VT),
\* U+001C..U+001F (FS, GS, RS, US), U+0085 (NEL) and the Unicode spaces
\* U+1680, U+2000..U+200A, U+2028, U+2029, U+202F, U+205F, U+3000.  The
\* sixth element is U+00A0.
Whitespace ==
    {" ", "\t", "\n", "\r", "\f", " ",
     "VT", "FS", "GS", "RS", "US", "NEL",
     "U+1680", "U+2000", "U+2001", "U+2002", "U+2003", "U+2004", "U+2005",
     "U+2006", "U+2007", "U+2008", "U+2009", "U+200A", "U+2028", "U+2029",
     "U+202F", "U+205F", "U+3000"}

str_strip(s) ==
    LET ink == {i \in 1..Len(s) : s[i] \notin Whitespace}
    IN  IF ink = {} THEN <<>>
        ELSE SubSeq(s, CHOOSE i \in ink : \A j \in ink : i <= j,
                       CHOOSE i \in ink : \A j \in ink : j <= i)

(***************************************************************************)
(* The sources and the network.                                            *)
(***************************************************************************)
DOW_JONES_SOURCES ==
    <<"https://data.geohashing.info/dow/", "http://geo.crox.net/djia/",
      "http://www1.geo.crox.net/djia/", "http://www2.geo.crox.net/djia/",
      "http://carabiner.peeron.com/xkcd/map/data/">>

NumSources == Len(DOW_JONES_SOURCES)

StatusOK == 200

\* What requests.get does: it raises the exception exc, or returns a
\* response with a status code.
Raises(e) == [exc |-> e, status |-> 0]
Responds(c) == [exc |-> "", status |-> c]

Outcomes ==
    {Raises("ReadTimeout"), Raises("ConnectTimeout"), Raises("ConnectionError"),
     Responds(200), Responds(404)}

\* The index value source n holds for a date key YYYY/MM/DD: it is made of
\* the key's month and day and of n.
ServerValue(n, key) ==
    <<"1">> \o SubSeq(key, Len(key) - 4, Len(key) - 3)
    \o SubSeq(key, Len(key) - 1, Len(key)) \o <<".", DigitChar(n), "8">>

\* The body source n answers with: the value, in that source's layout (the
\* last one ends with U+00A0 and a space).
ServerText(n, key) ==
    CASE n = 1 -> ServerValue(n, key)
      [] n = 2 -> ServerValue(n, key) \o <<"\n">>
      [] n = 3 -> <<" ">> \o ServerValue(n, key) \o <<"\n">>
      [] n = 4 -> ServerValue(n, key) \o <<"\r", "\n">>
      [] OTHER -> <<"\t">> \o ServerValue(n, key) \o <<" ", " ">>

(***************************************************************************)
(* hashlib.md5(...).hexdigest(), given by its values on the strings the    *)
(* model hashes.                                                           *)
(***************************************************************************)
\* Pairs of a string and the hexadecimal digest of its UTF-8 bytes.
MD5Table ==
    <<
      <<<<"2", "0", "0", "5", "-", "0", "5", "-", "2", "6", "-", "1", "0", "4", "5", "8", ".", "6", "8">>,
        <<"d", "b", "9", "3", "1", "8", "c", "2", "2", "5", "9", "9", "2", "3", "d", "0", "8", "b", "6", "7", "2", "c", "b", "3", "0", "5", "4", "4", "0", "f", "9", "7">>>>,
      <<<<"2", "0", "0", "5", "-", "0", "5", "-", "2", "6", "-", "1", "0", "4", "5", "8", ".", "6">>,
        <<"8", "f", "4", "9", "0", "d", "8", "a", "2", "a", "d", "a", "7", "3", "c", "f", "7", "0", "1", "2", "2", "4", "b", "5", "e", "b", "7", "6", "8", "d", "b", "0">>>>,
      <<<<"2", "0", "0", "5", "-", "0", "5", "-", "2", "6", "-", "1", "0", "5", "2", "6", ".", "1", "8">>,
        <<"4", "6", "2", "a", "d", "7", "5", "9", "5", "8", "6", "1", "2", "1", "6", "e", "b", "8", "2", "4", "b", "8", "d", "6", "0", "e", "d", "3", "5", "c", "1", "6">>>>,
      <<<<"2", "0", "0", "5", "-", "0", "5", "-", "2", "6", "-", "1", "0", "5", "2", "6", ".", "2", "8">>,
        <<"f", "f", "b", "f", "8", "7", "0", "8", "c", "f", "e", "7", "8", "d", "f", "e", "f", "1", "c", "a", "2", "6", "e", "3", "5", "6", "a", "1", "8", "1", "6", "a">>>>,
      <<<<"2", "0", "0", "5", "-", "0", "5", "-", "2", "6", "-", "1", "0", "5", "2", "6", ".", "3", "8">>,
        <<"2", "c", "8", "c", "e", "5", "7", "9", "0", "2", "1", "5", "1", "d", "7", "e", "4", "6", "2", "b", "4", "4", "7", "e", "3", "5", "2", "c", "6", "5", "7", "0">>>>,
      <<<<"2", "0", "0", "5", "-", "0", "5", "-", "2", "6", "-", "1", "0", "5", "2", "6", ".", "4", "8">>,
        <<"9", "c", "4", "5", "d", "6", "3", "f", "c", "f", "d", "8", "4", "2", "1", "0", "1", "a", "e", "d", "d", "8", "a", "e", "0", "7", "1", "6", "1", "2", "b", "5">>>>,
      <<<<"2", "0", "0", "5", "-", "0", "5", "-", "2", "6", "-", "1", "0", "5", "2", "6", ".", "5", "8">>,
        <<"a", "6", "0", "e", "5", "5", "2", "b", "f", "5", "3", "1", "f", "8", "1", "b", "e", "b", "3", "c", "0", "3", "f", "4", "1", "a", "e", "b", "e", "9", "d", "5">>>>,
      <<<<"2", "0", "0", "5", "-", "0", "5", "-", "2", "6", "-", "1", "0", "5", "2", "5", ".", "1", "8">>,
        <<"7", "8", "f", "e", "5", "e", "4", "5", "3", "6", "6", "f", "8", "b", "0", "0", "6", "5", "f", "8", "e", "4", "f", "4", "0", "5", "d", "a", "7", "a", "0", "c">>>>,
      <<<<"2", "0", "0", "5", "-", "0", "5", "-", "2", "6", "-", "1", "0", "5", "2", "5", ".", "2", "8">>,
        <<"8", "8", "d", "4", "7", "b", "1", "a", "7", "d", "4", "d", "6", "2", "b", "f", "c", "5", "4", "6", "b", "e", "8", "5", "5", "2", "d", "5", "d", "a", "c", "4">>>>,
      <<<<"2", "0", "0", "5", "-", "0", "5", "-", "2", "6", "-", "1", "0", "5", "2", "5", ".", "3", "8">>,
        <<"0", "9", "4", "b", "c", "4", "1", "5", "0", "b", "8", "a", "9", "6", "7", "3", "3", "0", "8", "0", "8", "3", "e", "e", "d", "5", "8", "a", "4", "3", "a", "9">>>>,
      <<<<"2", "0", "0", "5", "-", "0", "5", "-", "2", "6", "-", "1", "0", "5", "2", "5", ".", "4", "8">>,
        <<"6", "8", "1", "c", "2", "7", "e", "0", "a", "b", "f", "b", "1", "4", "8", "e", "a", "f", "0", "b", "8", "5", "0", "9", "d", "6", "3", "5", "4", "1", "2", "7">>>>,
      <<<<"2", "0", "0", "5", "-", "0", "5", "-", "2", "6", "-", "1", "0", "5", "2", "5", ".", "5", "8">>,
        <<"d", "c", "a", "7", "2", "4", "c", "f", "d", "1", "3", "9", "6", "a", "d", "2", "8", "b", "1", "6", "8", "7", "0", "f", "7", "0", "0", "0", "9", "6", "0", "a">>>>,
      <<<<"2", "0", "0", "8", "-", "0", "3", "-", "0", "1", "-", "1", "0", "4", "5", "8", ".", "6", "8">>,
        <<"8", "d", "a", "d", "d", "e", "9", "f", "0", "e", "3", "1", "c", "4", "c", "b", "d", "1", "6", "2", "d", "4", "a", "4", "1", "e", "d", "4", "4", "7", "a", "9">>>>,
      <<<<"2", "0", "0", "8", "-", "0", "3", "-", "0", "1", "-", "1", "0", "4", "5", "8", ".", "6">>,
        <<"d", "a", "6", "b", "d", "c", "7", "3", "3", "0", "c", "b", "a", "1", "6", "c", "6", "b", "1", "f", "0", "0", "f", "f", "f", "6", "c", "8", "b", "f", "8", "6">>>>,
      <<<<"2", "0", "0", "8", "-", "0", "3", "-", "0", "1", "-", "1", "0", "3", "0", "1", ".", "1", "8">>,
        <<"d", "e", "b", "9", "b", "3", "9", "e", "a", "e", "8", "d", "4", "a", "c", "a", "d", "a", "8", "e", "7", "0", "a", "d", "9", "6", "d", "6", "9", "7", "e", "4">>>>,
      <<<<"2", "0", "0", "8", "-", "0", "3", "-", "0", "1", "-", "1", "0", "3", "0", "1", ".", "2", "8">>,
        <<"7", "a", "f", "4", "8", "2", "0", "c", "9", "5", "d", "b", "e", "e", "9", "7", "a", "d", "0", "3", "9", "0", "d", "0", "4", "c", "f", "2", "a", "9", "3", "d">>>>,
      <<<<"2", "0", "0", "8", "-", "0", "3", "-", "0", "1", "-", "1", "0", "3", "0", "1", ".", "3", "8">>,
        <<"d", "7", "3", "9", "8", "d", "b", "3", "5", "9", "b", "f", "3", "4", "8", "7", "5", "b", "4", "a", "e", "8", "8", "e", "3", "e", "9", "8", "5", "1", "4", "b">>>>,
      <<<<"2", "0", "0", "8", "-", "0", "3", "-", "0", "1", "-", "1", "0", "3", "0", "1", ".", "4", "8">>,
        <<"4", "f", "e", "2", "3", "b", "3", "5", "e", "c", "3", "e", "4", "2", "3", "c", "4", "a", "4", "1", "1", "6", "e", "1", "7", "5", "6", "9", "a", "6", "c", "4">>>>,
      <<<<"2", "0", "0", "8", "-", "0", "3", "-", "0", "1", "-", "1", "0", "3", "0", "1", ".", "5", "8">>,
        <<"8", "1", "a", "3", "a", "8", "e", "1", "c", "a", "7", "b", "4", "4", "c", "d", "5", "f", "c", "2", "a", "7", "3", "6", "8", "9", "e", "3", "b", "3", "f", "0">>>>,
      <<<<"2", "0", "0", "8", "-", "0", "3", "-", "0", "1", "-", "1", "0", "2", "2", "9", ".", "1", "8">>,
        <<"8", "6", "c", "f", "6", "1", "3", "5", "8", "f", "4", "1", "0", "2", "0", "8", "3", "c", "9", "1", "4", "a", "9", "a", "9", "0", "3", "3", "5", "b", "1", "9">>>>,
      <<<<"2", "0", "0", "8", "-", "0", "3", "-", "0", "1", "-", "1", "0", "2", "2", "9", ".", "2", "8">>,
        <<"1", "e", "2", "d", "8", "b", "6", "e", "6", "5", "4", "e", "0", "7", "6", "e", "4", "4", "c", "2", "4", "7", "6", "d", "b", "c", "4", "6", "d", "a", "c", "2">>>>,
      <<<<"2", "0", "0", "8", "-", "0", "3", "-", "0", "1", "-", "1", "0", "2", "2", "9", ".", "3", "8">>,
        <<"3", "e", "f", "7", "b", "e", "d", "8", "7", "0", "c", "2", "8", "3", "4", "e", "b", "e", "5", "6", "3", "7", "d", "0", "c", "0", "f", "2", "7", "7", "0", "2">>>>,
      <<<<"2", "0", "0", "8", "-", "0", "3", "-", "0", "1", "-", "1", "0", "2", "2", "9", ".", "4", "8">>,
        <<"1", "2", "f", "4", "8", "7", "2", "8", "4", "2", "2", "1", "6", "6", "6", "0", "d", "f", "4", "8", "8", "0", "8", "2", "4", "c", "e", "f", "6", "b", "d", "0">>>>,
      <<<<"2", "0", "0", "8", "-", "0", "3", "-", "0", "1", "-", "1", "0", "2", "2", "9", ".", "5", "8">>,
        <<"f", "e", "5", "1", "0", "9", "b", "6", "e", "6", "e", "0", "f", "b", "4", "a", "9", "4", "d", "2", "6", "8", "1", "7", "1", "f", "b", "f", "b", "c", "f", "6">>>>,
      <<<<"2", "0", "0", "9", "-", "0", "1", "-", "0", "1", "-", "1", "0", "4", "5", "8", ".", "6", "8">>,
        <<"3", "f", "8", "5", "0", "6", "5", "6", "f", "1", "9", "3", "c", "2", "4", "0", "6", "a", "4", "8", "6", "2", "a", "f", "c", "1", "9", "8", "0", "0", "7", "d">>>>,
      <<<<"2", "0", "0", "9", "-", "0", "1", "-", "0", "1", "-", "1", "0", "4", "5", "8", ".", "6">>,
        <<"1", "e", "7", "e", "a", "2", "d", "e", "f", "5", "2", "2", "7", "6", "0", "f", "d", "1", "4", "e", "0", "4", "0", "a", "1", "b", "3", "4", "3", "b", "9", "2">>>>,
      <<<<"2", "0", "0", "9", "-", "0", "1", "-", "0", "1", "-", "1", "0", "1", "0", "1", ".", "1", "8">>,
        <<"0", "8", "2", "0", "8", "c", "8", "f", "6", "7", "5", "3", "0", "f", "4", "8", "c", "c", "c", "4", "0", "0", "5", "e", "0", "0", "1", "c", "9", "1", "6", "a">>>>,
      <<<<"2", "0", "0", "9", "-", "0", "1", "-", "0", "1", "-", "1", "0", "1", "0", "1", ".", "2", "8">>,
        <<"c", "5", "7", "d", "4", "4", "5", "1", "0", "8", "b", "d", "9", "c", "5", "5", "5", "b", "7", "7", "c", "f", "2", "7", "4", "0", "0", "2", "f", "3", "d", "e">>>>,
      <<<<"2", "0", "0", "9", "-", "0", "1", "-", "0", "1", "-", "1", "0", "1", "0", "1", ".", "3", "8">>,
        <<"c", "c", "a", "f", "4", "6", "b", "1", "b", "1", "0", "c", "5", "8", "0", "d", "8", "a", "8", "e", "0", "5", "f", "6", "9", "6", "4", "b", "7", "6", "a", "b">>>>,
      <<<<"2", "0", "0", "9", "-", "0", "1", "-", "0", "1", "-", "1", "0", "1", "0", "1", ".", "4", "8">>,
        <<"2", "2", "6", "1", "b", "8", "8", "f", "c", "1", "9", "b", "e", "5", "0", "b", "b", "3", "8", "2", "4", "9", "3", "0", "9", "0", "2", "4", "5", "e", "c", "c">>>>,
      <<<<"2", "0", "0", "9", "-", "0", "1", "-", "0", "1", "-", "1", "0", "1", "0", "1", ".", "5", "8">>,
        <<"e", "b", "5", "a", "e", "1", "5", "3", "1", "e", "8", "d", "0", "e", "d", "9", "c", "8", "0", "d", "e", "d", "d", "e", "6", "1", "a", "7", "2", "0", "d", "4">>>>,
      <<<<"2", "0", "0", "9", "-", "0", "1", "-", "0", "1", "-", "1", "1", "2", "3", "1", ".", "1", "8">>,
        <<"5", "a", "f", "b", "1", "4", "e", "4", "b", "2", "8", "1", "f", "8", "2", "b", "0", "8", "6", "6", "e", "f", "9", "2", "b", "6", "5", "0", "d", "d", "4", "5">>>>,
      <<<<"2", "0", "0", "9", "-", "0", "1", "-", "0", "1", "-", "1", "1", "2", "3", "1", ".", "2", "8">>,
        <<"2", "e", "6", "3", "1", "1", "7", "b", "3", "b", "b", "b", "c", "e", "d", "9", "f", "c", "3", "d", "5", "7", "a", "2", "5", "e", "3", "1", "1", "a", "8", "b">>>>,
      <<<<"2", "0", "0", "9", "-", "0", "1", "-", "0", "1", "-", "1", "1", "2", "3", "1", ".", "3", "8">>,
        <<"7", "9", "4", "0", "2", "9", "b", "7", "7", "b", "5", "d", "d", "6", "b", "1", "d", "c", "5", "b", "5", "f", "b", "9", "2", "1", "c", "b", "a", "6", "1", "4">>>>,
      <<<<"2", "0", "0", "9", "-", "0", "1", "-", "0", "1", "-", "1", "1", "2", "3", "1", ".", "4", "8">>,
        <<"5", "3", "0", "1", "9", "a", "0", "9", "1", "c", "f", "c", "8", "8", "4", "b", "f", "8", "0", "9", "a", "1", "c", "c", "5", "b", "1", "f", "9", "5", "c", "e">>>>,
      <<<<"2", "0", "0", "9", "-", "0", "1", "-", "0", "1", "-", "1", "1", "2", "3", "1", ".", "5", "8">>,
        <<"f", "1", "8", "8", "b", "e", "4", "6", "4", "c", "c", "0", "c", "a", "d", "a", "d", "e", "8", "f", "2", "2", "1", "5", "e", "a", "8", "f", "6", "2", "e", "4">>>>,
      <<<<"1", "-", "0", "1", "-", "0", "1", "-", "1", "0", "4", "5", "8", ".", "6", "8">>,
        <<"c", "0", "5", "1", "d", "c", "0", "c", "6", "9", "5", "2", "6", "c", "3", "b", "7", "7", "a", "1", "4", "4", "8", "d", "7", "9", "a", "0", "c", "0", "f", "d">>>>,
      <<<<"1", "-", "0", "1", "-", "0", "1", "-", "1", "0", "4", "5", "8", ".", "6">>,
        <<"2", "2", "e", "5", "3", "f", "e", "3", "f", "2", "e", "5", "0", "1", "6", "7", "4", "e", "2", "0", "2", "4", "d", "7", "0", "6", "2", "0", "a", "a", "8", "2">>>>,
      <<<<"1", "-", "0", "1", "-", "0", "1", "-", "1", "0", "1", "0", "1", ".", "1", "8">>,
        <<"9", "4", "5", "3", "d", "b", "b", "3", "1", "3", "6", "3", "f", "e", "8", "c", "c", "e", "5", "a", "7", "f", "b", "e", "8", "3", "a", "b", "5", "2", "9", "7">>>>,
      <<<<"1", "-", "0", "1", "-", "0", "1", "-", "1", "0", "1", "0", "1", ".", "2", "8">>,
        <<"5", "5", "d", "5", "0", "e", "b", "3", "7", "b", "3", "f", "e", "4", "3", "f", "3", "a", "6", "c", "1", "6", "9", "2", "b", "d", "c", "8", "0", "1", "c", "7">>>>,
      <<<<"1", "-", "0", "1", "-", "0", "1", "-", "1", "0", "1", "0", "1", ".", "3", "8">>,
        <<"7", "8", "3", "9", "7", "8", "6", "c", "6", "b", "3", "2", "7", "f", "0", "c", "9", "d", "a", "b", "6", "2", "5", "c", "7", "2", "8", "c", "e", "0", "0", "f">>>>,
      <<<<"1", "-", "0", "1", "-", "0", "1", "-", "1", "0", "1", "0", "1", ".", "4", "8">>,
        <<"0", "a", "0", "8", "1", "4", "0", "0", "a", "9", "b", "8", "3", "e", "2", "5", "b", "c", "9", "2", "a", "a", "e", "a", "b", "b", "0", "5", "0", "b", "7", "f">>>>,
      <<<<"1", "-", "0", "1", "-", "0", "1", "-", "1", "0", "1", "0", "1", ".", "5", "8">>,
        <<"9", "c", "9", "5", "b", "0", "4", "e", "5", "2", "9", "7", "7", "8", "1", "1", "c", "5", "3", "0", "5", "c", "4", "c", "1", "d", "e", "d", "8", "5", "e", "6">>>>,
      <<<<"2", "0", "0", "5", "-", "0", "5", "-", "0", "6", "-", "1", "0", "4", "5", "8", ".", "6", "8">>,
        <<"7", "e", "8", "0", "f", "8", "e", "f", "9", "5", "2", "c", "f", "3", "6", "f", "7", "b", "3", "7", "e", "9", "0", "d", "f", "e", "e", "9", "1", "6", "c", "5">>>>,
      <<<<"2", "0", "0", "5", "-", "0", "5", "-", "0", "6", "-", "1", "0", "4", "5", "8", ".", "6">>,
        <<"9", "c", "4", "e", "4", "b", "b", "8", "e", "2", "d", "c", "f", "1", "e", "4", "7", "8", "2", "2", "c", "0", "9", "7", "c", "7", "c", "2", "b", "2", "7", "2">>>>,
      <<<<"2", "0", "0", "5", "-", "0", "5", "-", "0", "6", "-", "1", "0", "5", "0", "6", ".", "1", "8">>,
        <<"5", "1", "d", "d", "5", "c", "1", "7", "b", "c", "c", "d", "c", "f", "0", "8", "6", "1", "0", "a", "0", "5", "c", "8", "8", "d", "6", "b", "0", "b", "5", "8">>>>,
      <<<<"2", "0", "0", "5", "-", "0", "5", "-", "0", "6", "-", "1", "0", "5", "0", "6", ".", "2", "8">>,
        <<"3", "5", "1", "a", "9", "8", "d", "9", "e", "9", "1", "7", "9", "f", "5", "b", "e", "e", "7", "8", "d", "4", "b", "5", "3", "1", "c", "c", "6", "a", "0", "6">>>>,
      <<<<"2", "0", "0", "5", "-", "0", "5", "-", "0", "6", "-", "1", "0", "5", "0", "6", ".", "3", "8">>,
        <<"7", "7", "e", "b", "7", "2", "6", "3", "d", "0", "4", "6", "6", "7", "7", "e", "b", "4", "6", "e", "2", "2", "2", "b", "2", "c", "b", "4", "4", "0", "7", "5">>>>,
      <<<<"2", "0", "0", "5", "-", "0", "5", "-", "0", "6", "-", "1", "0", "5", "0", "6", ".", "4", "8">>,
        <<"9", "7", "3", "3", "4", "3", "e", "c", "9", "0", "a", "b", "6", "1", "a", "e", "4", "f", "5", "1", "b", "a", "c", "2", "7", "5", "7", "e", "6", "5", "c", "b">>>>,
      <<<<"2", "0", "0", "5", "-", "0", "5", "-", "0", "6", "-", "1", "0", "5", "0", "6", ".", "5", "8">>,
        <<"b", "a", "0", "e", "c", "d", "0", "0", "7", "3", "0", "f", "c", "6", "1", "a", "e", "6", "a", "e", "0", "a", "a", "6", "1", "c", "c", "c", "7", "b", "d", "4">>>>,
      <<<<"2", "0", "0", "5", "-", "0", "5", "-", "0", "6", "-", "1", "0", "5", "0", "5", ".", "1", "8">>,
        <<"6", "6", "7", "e", "9", "c", "6", "6", "0", "0", "9", "5", "3", "8", "6", "f", "e", "b", "7", "1", "d", "a", "a", "1", "8", "8", "e", "4", "d", "9", "d", "9">>>>,
      <<<<"2", "0", "0", "5", "-", "0", "5", "-", "0", "6", "-", "1", "0", "5", "0", "5", ".", "2", "8">>,
        <<"0", "5", "a", "6", "0", "9", "b", "f", "4", "4", "b", "a", "a", "f", "5", "8", "9", "2", "8", "1", "7", "a", "1", "7", "7", "5", "c", "b", "3", "b", "6", "2">>>>,
      <<<<"2", "0", "0", "5", "-", "0", "5", "-", "0", "6", "-", "1", "0", "5", "0", "5", ".", "3", "8">>,
        <<"5", "7", "c", "e", "3", "0", "4", "e", "b", "c", "e", "e", "4", "2", "4", "6", "a", "c", "b", "0", "6", "f", "d", "b", "8", "3", "0", "6", "a", "4", "f", "0">>>>,
      <<<<"2", "0", "0", "5", "-", "0", "5", "-", "0", "6", "-", "1", "0", "5", "0", "5", ".", "4", "8">>,
        <<"6", "4", "6", "f", "2", "0", "6", "6", "4", "1", "a", "f", "8", "1", "d", "d", "4", "2", "b", "e", "5", "5", "f", "e", "2", "c", "5", "a", "e", "e", "4", "5">>>>,
      <<<<"2", "0", "0", "5", "-", "0", "5", "-", "0", "6", "-", "1", "0", "5", "0", "5", ".", "5", "8">>,
        <<"4", "6", "c", "4", "1", "3", "4", "d", "a", "9", "d", "3", "2", "a", "d", "3", "2", "4", "b", "b", "e", "7", "4", "7", "8", "b", "3", "8", "4", "4", "c", "d">>>>
    >>


md5_hexdigest(s) ==
    LET hit == {k \in 1..Len(MD5Table) : MD5Table[k][1] = s}
    IN  MD5Table[CHOOSE k \in hit : TRUE][2]

(***************************************************************************)
(* The state of a run.                                                     *)
(***************************************************************************)
VARIABLES
    argv,       \* the command line: the strings given for each option
    args,       \* the argparse namespace
    today,      \* the date of the computer clock
    net,        \* what each source does when it is requested
    call,       \* the function first called and the parameters it was given
    stack,      \* the active calls, outermost first
    pc,         \* the position in the innermost call
    lat, lon,   \* geohash's position parameters
    east,       \* geohash's and get_hash's 30W flag
    date,       \* geohash's and get_hash's date
    dow_jones,  \* geohash's and get_hash's index value
    f_east,     \* get_dow_jones' east parameter
    f_date,     \* get_dow_jones' date parameter
    key,        \* get_dow_jones' date, formatted for the URL
    idx,        \* the source get_dow_jones' loop is at
    queried,    \* the requests sent so far
    ret,        \* what get_dow_jones returned
    preimage,   \* the string get_hash hashed
    md5_hash,   \* the digest
    fracs,      \* the two values float.fromhex gave hash_to_location
    loc,        \* what hash_to_location returned
    coord,      \* lat, lon of the caller
    computed,   \* lat, lon before the centicule adjustment
    raised,     \* the exception that ended the run, "" for none
    exit_code,  \* the exit code of the command
    out         \* what the command printed

vars == <<argv, args, today, net, call, stack, pc, lat, lon, east, date,
          dow_jones, f_east, f_date, key, idx, queried, ret, preimage,
          md5_hash, fracs, loc, coord, computed, raised, exit_code, out>>

\* An index value is a str or a float.
StrVal(s) == [kind |-> "str", s |-> s, x |-> FloatZero]
FloatVal(x) == [kind |-> "float", s |-> <<>>, x |-> x]

\* str(v)
py_str(v) == IF v.kind = "str" THEN v.s ELSE float_str(v.x)

Push(f) == Append(stack, f)
Pop == SubSeq(stack, 1, Len(stack) - 1)
Caller == stack[Len(stack) - 1]

NoOutput == [msg |-> "", style |-> "", lat |-> <<>>, lon |-> <<>>]

\* An exception nothing catches ends the run; the command exits with 1.
Raise(e) ==
    /\ raised' = e
    /\ stack' = <<>>
    /\ pc' = "exit"
    /\ exit_code' = IF stack[1] = "main" THEN Some(1) ELSE exit_code

(***************************************************************************)
(* The command: argument conversion, checks, dispatch.                     *)
(***************************************************************************)
OptFloat(o) == IF o = None THEN None ELSE Some(float_parse(o[1]))

\* The namespace parse_args makes of the command line: latitude, longitude
\* and --dow-jones are type=float.  (The date and --30w are strings until
\* the checks; their fields hold what the checks make of them.)
Namespace(av) ==
    [latitude  |-> OptFloat(av.latitude),
     longitude |-> OptFloat(av.longitude),
     date      |-> None,
     dow_jones |-> OptFloat(av.dow_jones),
     w30       |-> None,
     global    |-> av.global,
     simple    |-> av.simple,
     centicule |-> av.centicule]

ParseArgs ==
    /\ pc = "parse_args"
    /\ args' = Namespace(argv)
    /\ pc' = "checks"
    /\ UNCHANGED <<argv, today, net, call, stack, lat, lon, east, date,
                   dow_jones, f_east, f_date, key, idx, queried, ret,
                   preimage, md5_hash, fracs, loc, coord, computed, raised,
                   exit_code, out>>

\* The date is parsed, or the command exits with 1; --30w becomes a bool.
Checks ==
    /\ pc = "checks"
    /\ LET parsed == IF argv.date = None THEN None ELSE strptime(argv.date[1])
           w30    == IF argv.w30 \in {Some("e"), Some("east")} THEN Some(TRUE)
                     ELSE IF argv.w30 \in {Some("w"), Some("west")} THEN Some(FALSE)
                     ELSE None
       IN  IF argv.date # None /\ parsed = None
           THEN /\ out' = [NoOutput EXCEPT
                             !.msg = "The date provided was not in YYYY-MM-DD format."]
                /\ exit_code' = Some(1)
                /\ stack' = <<>>
                /\ pc' = "exit"
                /\ args' = args
           ELSE /\ args' = [args EXCEPT !.date = parsed, !.w30 = w30]
                /\ pc' = "dispatch"
                /\ UNCHANGED <<out, exit_code, stack>>
    /\ UNCHANGED <<argv, today, net, call, lat, lon, east, date, dow_jones,
                   f_east, f_date, key, idx, queried, ret, preimage, md5_hash,
                   fracs, loc, coord, computed, raised>>

\* globalhash or geohash is called, or the command exits with 1 for want of
\* a latitude or a longitude.
Dispatch ==
    /\ pc = "dispatch"
    /\ LET dj == IF args.dow_jones = None THEN None
                 ELSE Some(FloatVal(args.dow_jones[1]))
       IN  IF args.global
           THEN /\ date' = args.date
                /\ dow_jones' = dj
                /\ stack' = Push("globalhash")
                /\ pc' = "globalhash"
                /\ UNCHANGED <<lat, lon, east, out, exit_code>>
           ELSE IF args.latitude = None \/ args.longitude = None
           THEN /\ out' = [NoOutput EXCEPT !.msg =
                   "Latitude and longitude must be provided when not calculating the globalhash."]
                /\ exit_code' = Some(1)
                /\ stack' = <<>>
                /\ pc' = "exit"
                /\ UNCHANGED <<lat, lon, east, date, dow_jones>>
           ELSE /\ lat' = args.latitude[1]
                /\ lon' = args.longitude[1]
                /\ date' = args.date
                /\ dow_jones' = dj
                /\ east' = args.w30
                /\ stack' = Push("geohash")
                /\ pc' = "geohash"
                /\ UNCHANGED <<out, exit_code>>
    /\ UNCHANGED <<argv, args, today, net, call, f_east, f_date, key, idx,
                   queried, ret, preimage, md5_hash, fracs, loc, coord,
                   computed, raised>>

(***************************************************************************)
(* globalhash, geohash, get_hash.                                          *)
(***************************************************************************)
\* globalhash calls geohash(0, 0, date, dow_jones, east=True).
Globalhash ==
    /\ pc = "globalhash"
    /\ lat' = FloatZero
    /\ lon' = FloatZero
    /\ east' = Some(TRUE)
    /\ stack' = Push("geohash")
    /\ pc' = "geohash"
    /\ UNCHANGED <<argv, args, today, net, call, date, dow_jones, f_east,
                   f_date, key, idx, queried, ret, preimage, md5_hash, fracs,
                   loc, coord, computed, raised, exit_code, out>>

\* A resolution that would draw the line at -31.
ResolveEastBeyond(e, ln) ==
    IF e = None THEN Some(float_gt(ln, -31)) ELSE e

\* The flag geohash uses: the one given, or east exactly when lon > -30.
ResolveEast(e, ln) == IF e = None THEN Some(float_gt(ln, -30)) ELSE e

\* geohash settles the flag and calls get_hash.
Geohash ==
    /\ pc = "geohash"
    /\ east' = ResolveEast(east, lon)
    /\ stack' = Push("get_hash")
    /\ pc' = "get_hash"
    /\ UNCHANGED <<argv, args, today, net, call, lat, lon, date, dow_jones,
                   f_east, f_date, key, idx, queried, ret, preimage, md5_hash,
                   fracs, loc, coord, computed, raised, exit_code, out>>

\* A get_hash that would fetch whether or not an index value is given.
NeedsFetchAlways(dj) == TRUE

\* get_hash fetches the index value when none is given.
NeedsFetch(dj) == dj = None

\* get_hash takes today's date if none is given and fetches the index value
\* if none is given.
GetHash ==
    /\ pc = "get_hash"
    /\ date' = IF date = None THEN Some(today) ELSE date
    /\ IF NeedsFetch(dow_jones)
       THEN /\ f_east' = east[1]
            /\ f_date' = date'
            /\ stack' = Push("get_dow_jones")
            /\ pc' = "get_dow_jones"
       ELSE /\ pc' = "digest"
            /\ UNCHANGED <<f_east, f_date, stack>>
    /\ UNCHANGED <<argv, args, today, net, call, lat, lon, east, dow_jones,
                   key, idx, queried, ret, preimage, md5_hash, fracs, loc,
                   coord, computed, raised, exit_code, out>>

(***************************************************************************)
(* get_dow_jones.                                                          *)
(***************************************************************************)
\* A fetch that would ask for the date itself whatever the flag.
FetchDateUnshifted(e, d) == d

\* The date get_dow_jones asks the sources for.
FetchDate(e, d) == IF e THEN PrevDay(d) ELSE d

\* The date is settled, moved back a day when east, and formatted.
GetDowJones ==
    /\ pc = "get_dow_jones"
    /\ LET d == IF f_date = None THEN today ELSE f_date[1]
       IN  IF f_east /\ d = MinDate
           THEN /\ Raise("OverflowError")
                /\ UNCHANGED <<key, idx>>
           ELSE /\ key' = strftime(FetchDate(f_east, d), "/")
                /\ idx' = 1
                /\ pc' = "query"
                /\ UNCHANGED <<stack, raised, exit_code>>
    /\ UNCHANGED <<argv, args, today, net, call, lat, lon, east, date,
                   dow_jones, f_east, f_date, queried, ret, preimage,
                   md5_hash, fracs, loc, coord, computed, out>>

Request(n) == [n |-> n, url |-> DOW_JONES_SOURCES[n], date |-> key]

\* A loop that would take a response of any status for an answer.
OnOutcomeAnyStatus(o) ==
    IF o.exc = "ReadTimeout" THEN "next"
    ELSE IF o.exc # "" THEN "raise"
    ELSE "return"

\* What the loop does with the outcome o of a request: "next", "raise" or
\* "return".
OnOutcome(o) ==
    IF o.exc = "ReadTimeout" THEN "next"
    ELSE IF o.exc # "" THEN "raise"
    ELSE IF o.status = StatusOK THEN "return"
    ELSE "next"

\* One turn of the loop: the source is requested; a read timeout or a status
\* other than 200 moves on, any other exception leaves, and a 200 returns
\* the stripped text.
Query ==
    /\ pc = "query"
    /\ idx <= NumSources
    /\ queried' = Append(queried, Request(idx))
    /\ LET o    == net[idx]
           then == OnOutcome(o)
           text == str_strip(ServerText(idx, key))
       IN  CASE then = "raise" ->
                  /\ Raise(o.exc)
                  /\ UNCHANGED <<idx, ret, dow_jones>>
             [] then = "return" ->
                  /\ ret' = Some(text)
                  /\ stack' = Pop
                  /\ IF Len(stack) > 1
                     THEN pc' = "digest" /\ dow_jones' = Some(StrVal(text))
                     ELSE pc' = "exit" /\ dow_jones' = dow_jones
                  /\ UNCHANGED <<idx, raised, exit_code>>
             [] OTHER ->
                  /\ idx' = idx + 1
                  /\ UNCHANGED <<pc, stack, ret, dow_jones, raised, exit_code>>
    /\ UNCHANGED <<argv, args, today, net, call, lat, lon, east, date, f_east,
                   f_date, key, preimage, md5_hash, fracs, loc, coord,
                   computed, out>>

\* Every source has been tried.
Exhausted ==
    /\ pc = "query"
    /\ idx > NumSources
    /\ Raise("Exception")
    /\ UNCHANGED <<argv, args, today, net, call, lat, lon, east, date,
                   dow_jones, f_east, f_date, key, idx, queried, ret,
                   preimage, md5_hash, fracs, loc, coord, computed, out>>

(***************************************************************************)
(* The digest and the location.                                            *)
(***************************************************************************)
\* The string get_hash hashes.
HashInput(d, dj) == strftime(d, "-") \o <<"-">> \o py_str(dj)

Digest ==
    /\ pc = "digest"
    /\ preimage' = HashInput(date[1], dow_jones[1])
    /\ md5_hash' = md5_hexdigest(preimage')
    /\ stack' = Pop
    /\ pc' = "decode"
    /\ UNCHANGED <<argv, args, today, net, call, lat, lon, east, date,
                   dow_jones, f_east, f_date, key, idx, queried, ret, fracs,
                   loc, coord, computed, raised, exit_code, out>>

\* Where a call made from function f continues when it returns.
After(f) ==
    IF f = "globalhash" THEN "rescale"
    ELSE IF f = "main" THEN "centicule"
    ELSE "exit"

\* geohash returns hash_to_location(lat, lon, digest).
Decode ==
    /\ pc = "decode"
    /\ fracs' = <<float_fromhex(SubSeq(md5_hash, 1, HalfLen)),
                  float_fromhex(SubSeq(md5_hash, HalfLen + 1, Len(md5_hash)))>>
    /\ loc' = hash_to_location(lat, lon, md5_hash)
    /\ coord' = loc'
    /\ stack' = Pop
    /\ pc' = IF Len(stack) > 1 THEN After(Caller) ELSE "exit"
    /\ UNCHANGED <<argv, args, today, net, call, lat, lon, east, date,
                   dow_jones, f_east, f_date, key, idx, queried, ret,
                   preimage, md5_hash, computed, raised, exit_code, out>>

\* globalhash spreads the location over the globe.
GlobalRescale ==
    /\ pc = "rescale"
    /\ coord' = Rescale(coord)
    /\ stack' = Pop
    /\ pc' = IF Len(stack) > 1 THEN After(Caller) ELSE "exit"
    /\ UNCHANGED <<argv, args, today, net, call, lat, lon, east, date,
                   dow_jones, f_east, f_date, key, idx, queried, ret,
                   preimage, md5_hash, fracs, loc, computed, raised,
                   exit_code, out>>

(***************************************************************************)
(* The centicule and the output.                                           *)
(***************************************************************************)
\* With --centicule the tenths of the given latitude and longitude replace
\* those of the result; abs(None) is a TypeError.
Centicule ==
    /\ pc = "centicule"
    /\ computed' = coord
    /\ IF ~args.centicule
       THEN /\ pc' = "output"
            /\ UNCHANGED <<coord, stack, raised, exit_code>>
       ELSE IF args.latitude = None
       THEN /\ Raise("TypeError")
            /\ UNCHANGED coord
       ELSE IF args.longitude = None
       THEN /\ Raise("TypeError")
            /\ coord' = <<replace_tenths(coord[1], args.latitude[1]), coord[2]>>
       ELSE /\ coord' = <<replace_tenths(coord[1], args.latitude[1]),
                          replace_tenths(coord[2], args.longitude[1])>>
            /\ pc' = "output"
            /\ UNCHANGED <<stack, raised, exit_code>>
    /\ UNCHANGED <<argv, args, today, net, call, lat, lon, east, date,
                   dow_jones, f_east, f_date, key, idx, queried, ret,
                   preimage, md5_hash, fracs, loc, out>>

\* The coordinate is printed, simple or fancy, and the command exits with 0.
Output ==
    /\ pc = "output"
    /\ out' = [msg   |-> "",
               style |-> IF args.simple THEN "simple" ELSE "fancy",
               lat   |-> float_str(coord[1]),
               lon   |-> float_str(coord[2])]
    /\ exit_code' = Some(0)
    /\ stack' = <<>>
    /\ pc' = "exit"
    /\ UNCHANGED <<argv, args, today, net, call, lat, lon, east, date,
                   dow_jones, f_east, f_date, key, idx, queried, ret,
                   preimage, md5_hash, fracs, loc, coord, computed, raised>>

(***************************************************************************)
(* The inputs the runs are drawn from.                                     *)
(***************************************************************************)
Dates == {Date(2005, 5, 26), Date(2008, 3, 1), Date(2009, 1, 1)}

Todays == {Date(2005, 5, 26), Date(2009, 1, 1)}

IndexText == <<"1", "0", "4", "5", "8", ".", "6", "8">>

Latitudes == {float_parse(<<"3", "7", ".", "7", "7">>)}

Longitudes ==
    {float_parse(<<"-", "1", "2", "2", ".", "4", "2">>),
     float_parse(<<"-", "3", "0", ".", "5">>),
     float_parse(<<"-", "3", "0">>),
     float_parse(<<"-", "2", "9", ".", "5">>),
     float_parse(<<"0", ".", "0", "5">>),
     float_parse(<<"1", "5", "1", ".", "2">>)}

\* Every way the five sources can answer.
AllNets == [1..NumSources -> Outcomes]

\* Some ways the five sources can answer: the first source answers; two
\* read timeouts, then an answer; only the last source answers; none
\* answers; the second source cannot be reached.
NetFirst ==
    <<Responds(200), Responds(200), Responds(200), Responds(200), Responds(200)>>
NetThird ==
    <<Raises("ReadTimeout"), Raises("ReadTimeout"), Responds(200), Responds(200),
      Responds(404)>>
NetLast ==
    <<Responds(404), Raises("ReadTimeout"), Responds(404), Raises("ReadTimeout"),
      Responds(200)>>
NetNone ==
    <<Raises("ReadTimeout"), Responds(404), Responds(404), Raises("ReadTimeout"),
      Responds(404)>>
NetBroken ==
    <<Responds(404), Raises("ConnectionError"), Responds(200), Responds(200),
      Responds(200)>>

SomeNets == {NetFirst, NetThird, NetLast, NetNone, NetBroken}

NoArgs ==
    [latitude |-> None, longitude |-> None, date |-> None, dow_jones |-> None,
     w30 |-> None, global |-> FALSE, simple |-> FALSE, centicule |-> FALSE]

NoCall ==
    [fn |-> "main", lat |-> FloatZero, lon |-> FloatZero, date |-> None,
     dow_jones |-> None, east |-> None]

\* Digest halves: the ends of the range, the values about which str(float)
\* changes its layout, one half, and the halves of the digest of
\* 2005-05-26-10458.68.
Halves ==
    <<<<"f", "f", "f", "f", "f", "f", "f", "f", "f", "f", "f", "f", "f", "f", "f", "f">>,
      <<"f", "f", "f", "f", "f", "f", "f", "f", "f", "f", "f", "f", "f", "8", "0", "0">>,
      <<"0", "0", "0", "0", "0", "0", "0", "0", "0", "0", "0", "0", "0", "0", "0", "0">>,
      <<"0", "0", "0", "1", "0", "0", "0", "0", "0", "0", "0", "0", "0", "0", "0", "0">>,
      <<"0", "0", "0", "6", "8", "d", "b", "8", "b", "a", "c", "7", "1", "0", "c", "b">>,
      <<"0", "0", "0", "6", "8", "d", "b", "8", "b", "a", "c", "7", "1", "0", "c", "c">>,
      <<"0", "0", "0", "0", "0", "0", "0", "0", "0", "0", "0", "0", "0", "0", "0", "1">>,
      <<"8", "0", "0", "0", "0", "0", "0", "0", "0", "0", "0", "0", "0", "0", "0", "0">>,
      <<"8", "0", "0", "0", "0", "0", "0", "0", "0", "0", "0", "0", "1", "0", "0", "0">>,
      <<"d", "b", "9", "3", "1", "8", "c", "2", "2", "5", "9", "9", "2", "3", "d", "0">>,
      <<"8", "b", "6", "7", "2", "c", "b", "3", "0", "5", "4", "4", "0", "f", "9", "7">>,
      <<"1", "9", "9", "9", "9", "9", "9", "9", "9", "9", "9", "9", "9", "9", "9", "a">>>>

PairSpread == 3

\* The digests made of a half and one of the PairSpread halves from it on.
Digests ==
    {Halves[i] \o Halves[((i + k - 1) % Len(Halves)) + 1] :
        i \in 1..Len(Halves), k \in 0..(PairSpread - 1)}

Positions ==
    {<<<<"3", "7", ".", "7", "7">>, <<"-", "1", "2", "2", ".", "4", "2">>>>,
     <<<<"0", ".", "7", "5">>, <<"-", "0", ".", "2", "5">>>>,
     <<<<"-", "3", "3", ".", "9">>, <<"1", "5", "1", ".", "2">>>>}

\* A date, a month that does not exist, another format, a day that does
\* not exist, a day written with a space.
DateTexts ==
    {<<"2", "0", "0", "5", "-", "0", "5", "-", "2", "6">>,
     <<"2", "0", "0", "5", "-", "1", "3", "-", "0", "1">>,
     <<"2", "6", "/", "0", "5", "/", "2", "0", "0", "5">>,
     <<"2", "0", "0", "5", "-", "0", "2", "-", "2", "9">>,
     <<"2", "0", "0", "5", "-", "0", "5", "-", " ", "6">>}

IndexTexts == {<<"1", "0", "4", "5", "8", ".", "6", "0">>}

(***************************************************************************)
(* Initial states.                                                         *)
(***************************************************************************)
\* Nothing has been fetched, hashed, computed, raised or printed.
Fresh ==
    /\ key = <<>>
    /\ idx = 0
    /\ queried = <<>>
    /\ ret = None
    /\ preimage = <<>>
    /\ fracs = <<>>
    /\ loc = <<>>
    /\ coord = <<>>
    /\ computed = <<>>
    /\ raised = ""
    /\ exit_code = None
    /\ out = NoOutput

\* get_dow_jones(east, date) is called, with every way the sources can answer.
InitFetch ==
    /\ today \in Todays
    /\ net \in AllNets
    /\ f_east \in BOOLEAN
    /\ f_date \in {None} \cup {Some(d) : d \in Dates}
    /\ call = [NoCall EXCEPT !.fn = "get_dow_jones", !.east = Some(f_east),
                             !.date = f_date]
    /\ stack = <<"get_dow_jones">>
    /\ pc = "get_dow_jones"
    /\ argv = NoArgs /\ args = NoArgs
    /\ lat = FloatZero /\ lon = FloatZero /\ east = None /\ date = None
    /\ dow_jones = None
    /\ md5_hash = <<>>
    /\ Fresh

\* No date, a date of Dates, or the first date there is.
OptDates == {None} \cup {Some(d) : d \in Dates \cup {MinDate}}
OptIndex == {None, Some(StrVal(IndexText))}

\* geohash(lat, lon, date, dow_jones, east) or globalhash(date, dow_jones)
\* is called.
InitCall ==
    /\ today \in Todays
    /\ net \in SomeNets
    /\ call \in [fn : {"geohash"}, lat : Latitudes, lon : Longitudes,
                 date : OptDates, dow_jones : OptIndex,
                 east : {None, Some(TRUE), Some(FALSE)}]
            \cup [fn : {"globalhash"}, lat : {FloatZero}, lon : {FloatZero},
                  date : OptDates, dow_jones : OptIndex, east : {None}]
    /\ stack = <<call.fn>>
    /\ pc = call.fn
    /\ lat = call.lat /\ lon = call.lon /\ east = call.east
    /\ date = call.date /\ dow_jones = call.dow_jones
    /\ f_east = FALSE /\ f_date = None
    /\ argv = NoArgs /\ args = NoArgs
    /\ md5_hash = <<>>
    /\ Fresh

\* The command is run.
InitMain ==
    /\ today = Date(2005, 5, 26)
    /\ net \in {NetThird, NetNone, NetBroken}
    /\ \E p \in {<<None, None>>, <<Some(<<"3", "7", ".", "7", "7">>), None>>}
               \cup {<<Some(q[1]), Some(q[2])>> : q \in Positions} :
         argv \in [latitude : {p[1]}, longitude : {p[2]},
                   date : {None} \cup {Some(t) : t \in DateTexts},
                   dow_jones : {None} \cup {Some(t) : t \in IndexTexts},
                   w30 : {None, Some("e"), Some("west")},
                   global : BOOLEAN, simple : BOOLEAN, centicule : BOOLEAN]
    /\ args = NoArgs
    /\ call = NoCall
    /\ stack = <<"main">>
    /\ pc = "parse_args"
    /\ lat = FloatZero /\ lon = FloatZero /\ east = None /\ date = None
    /\ dow_jones = None
    /\ f_east = FALSE /\ f_date = None
    /\ md5_hash = <<>>
    /\ Fresh

\* The command with --centicule and an index value, from the point where
\* get_hash has returned, hashlib.md5 having given a digest of Digests.
InitDecode ==
    /\ today = Date(2005, 5, 26)
    /\ net = NetFirst
    /\ \E q \in Positions, g \in BOOLEAN :
         /\ g => q[1][1] # "-"
         /\ argv = [NoArgs EXCEPT !.latitude = Some(q[1]), !.longitude = Some(q[2]),
                                  !.dow_jones = Some(IndexText),
                                  !.global = g, !.centicule = TRUE]
    /\ args = Namespace(argv)
    /\ call = NoCall
    /\ stack = IF argv.global THEN <<"main", "globalhash", "geohash">>
               ELSE <<"main", "geohash">>
    /\ pc = "decode"
    /\ lat = IF argv.global THEN FloatZero ELSE args.latitude[1]
    /\ lon = IF argv.global THEN FloatZero ELSE args.longitude[1]
    /\ east = IF argv.global THEN Some(TRUE) ELSE ResolveEast(None, lon)
    /\ date = Some(today)
    /\ dow_jones = Some(FloatVal(args.dow_jones[1]))
    /\ f_east = FALSE /\ f_date = None
    /\ md5_hash \in Digests
    /\ key = <<>>
    /\ idx = 0
    /\ queried = <<>>
    /\ ret = None
    /\ preimage = HashInput(today, dow_jones[1])
    /\ fracs = <<>>
    /\ loc = <<>>
    /\ coord = <<>>
    /\ computed = <<>>
    /\ raised = ""
    /\ exit_code = None
    /\ out = NoOutput

(***************************************************************************)
(* Specifications.                                                         *)
(***************************************************************************)
Fetching == GetDowJones \/ Query \/ Exhausted

Hashing == Globalhash \/ Geohash \/ GetHash \/ Digest

Locating == Decode \/ GlobalRescale

NextFetch == Fetching

NextCall == Hashing \/ Fetching \/ Locating

NextDecode == Locating \/ Centicule \/ Output

Next == ParseArgs \/ Checks \/ Dispatch \/ Hashing \/ Fetching \/ Locating
        \/ Centicule \/ Output

\* get_dow_jones alone.
SpecFetch == InitFetch /\ [][NextFetch]_vars

\* geohash and globalhash, called as functions.
SpecCall == InitCall /\ [][NextCall]_vars

\* The location, the centicule and the output, for chosen digests.
SpecDecode == InitDecode /\ [][NextDecode]_vars

\* The command.
Init == InitMain

Spec == Init /\ [][Next]_vars

(***************************************************************************)
(* Properties.                                                             *)
(***************************************************************************)
\* The date a call works with: the one given, or today's.
CallDate == IF call.date = None THEN today ELSE call.date[1]

\* The sources that answer with status 200.
Answering == {i \in 1..NumSources : net[i] = Responds(StatusOK)}

\* C1: get_dow_jones queries the sources strictly in list order, each once,
\* and the first success wins: a returned value is the trimmed body of the
\* earliest source that answers with status 200, and no source after that
\* one has been queried.
C1_FirstSuccessWins ==
    /\ Len(queried) <= NumSources
    /\ \A i \in 1..Len(queried) :
          /\ queried[i].n = i
          /\ queried[i].url = DOW_JONES_SOURCES[i]
          /\ \A j \in 1..(i - 1) : j \notin Answering
    /\ ret # None =>
          /\ Len(queried) \in Answering
          /\ ret = Some(ServerValue(Len(queried), key))

\* Sources 1 and 2 time out and source 3 answers: its value is returned and
\* source 4, which would have answered, was not queried.
C1_Witness ==
    /\ net[1] = Raises("ReadTimeout")
    /\ net[2] = Raises("ReadTimeout")
    /\ net[3] = Responds(200)
    /\ net[4] = Responds(200)
    /\ f_east /\ f_date = Some(Date(2005, 5, 26))
    /\ Len(queried) = 3
    /\ ret = Some(<<"1", "0", "5", "2", "5", ".", "3", "8">>)

\* C2: every failure of one source (a timeout, any other network failure,
\* a status other than 200) is recovered by going on to the next source; the
\* only error get_dow_jones lets out is the one raised when every source has
\* been tried and none answered with status 200.
C2_OnlyExhaustionPropagates ==
    raised # "" =>
        /\ raised = "Exception"
        /\ Len(queried) = NumSources
        /\ Answering = {}

\* C3: the flag decides only the date the sources are asked for (the day
\* before when east, the date itself when west); the string that is hashed
\* always starts with the date itself, as YYYY-MM-DD.
C3_FlagShiftsOnlyFetchKey ==
    /\ \A i \in 1..Len(queried) :
          /\ east # None
          /\ queried[i].date =
                strftime(IF east[1] THEN PrevDay(CallDate) ELSE CallDate, "/")
    /\ preimage # <<>> =>
          /\ date = Some(CallDate)
          /\ Len(preimage) > Len(strftime(CallDate, "-"))
          /\ SubSeq(preimage, 1, Len(strftime(CallDate, "-")) + 1)
                = strftime(CallDate, "-") \o <<"-">>

\* East of 30W on 2008-03-01: the sources were asked for 2008/02/29 and the
\* hashed string starts with 2008-03-01.
C3_Witness ==
    /\ call.fn = "geohash"
    /\ call.date = Some(Date(2008, 3, 1))
    /\ call.dow_jones = None
    /\ east = Some(TRUE)
    /\ queried # <<>>
    /\ queried[1].date = <<"2", "0", "0", "8", "/", "0", "2", "/", "2", "9">>
    /\ Len(preimage) > 10
    /\ SubSeq(preimage, 1, 10) = <<"2", "0", "0", "8", "-", "0", "3", "-", "0", "1">>

\* lon > -30, for a binary64 lon.
EastOf30W(ln) == ~ln.neg \/ ln.ip < 30

\* The flag a call is to work with.
ExpectedEast ==
    IF call.fn = "globalhash" THEN TRUE
    ELSE IF call.east # None THEN call.east[1]
    ELSE EastOf30W(call.lon)

\* C4: without an override the flag is east for every longitude > -30 and
\* west for every longitude <= -30, -30 included; an override is the flag
\* whatever the longitude; globalhash always works with east.
C4_ComplianceFlag ==
    /\ pc \notin {"geohash", "globalhash"} => east = Some(ExpectedEast)
    /\ pc \in {"get_dow_jones", "query"} => f_east = ExpectedEast
    /\ queried # <<>> => f_east = ExpectedEast

\* At exactly -30 with no override the flag is west, and the sources were
\* asked with it.
C4_Witness ==
    /\ call.fn = "geohash"
    /\ call.east = None
    /\ call.lon = Float(TRUE, 30, <<>>)
    /\ east = Some(FALSE)
    /\ queried # <<>>
    /\ ~f_east

\* C5: the integer part (truncated toward zero) of each component of what
\* hash_to_location returns is the integer part of the position given,
\* whatever the digest.
C5_GraticulePreserved ==
    loc # <<>> =>
        /\ float_int(loc[1]) = float_int(lat)
        /\ float_int(loc[2]) = float_int(lon)

\* The position the command was given.
GivenPosition == <<args.latitude[1], args.longitude[1]>>

\* C6: replace_tenths returns the computed value with its tenths digit
\* replaced by that of the original: the sign and the integer part are the
\* computed value's, the tenths digit is the original's.
C6_OnlyTenthsReplaced ==
    (argv.centicule /\ computed # <<>> /\ raised = "") =>
        \A i \in 1..2 :
            /\ coord[i].neg = computed[i].neg
            /\ coord[i].ip = computed[i].ip
            /\ Tenths(coord[i]) = Tenths(GivenPosition[i])

\* The date texts that name a day of the calendar, year-month-day.
ValidDateTexts ==
    {<<"2", "0", "0", "5", "-", "0", "5", "-", "2", "6">>,
     <<"2", "0", "0", "5", "-", "0", "5", "-", " ", "6">>}

\* C7: the command ends with exit code 1 exactly when the date is malformed
\* or a latitude or longitude is missing in graticule mode; whenever else an
\* index value is available it prints a coordinate and ends with exit code
\* 0, and no flag combination makes the computation raise an exception.
C7_ExitCodes ==
    pc = "exit" =>
        LET badDate == argv.date # None /\ argv.date[1] \notin ValidDateTexts
            missing == ~argv.global
                       /\ (argv.latitude = None \/ argv.longitude = None)
            avail   == argv.dow_jones # None \/ ret # None
        IN  /\ (badDate \/ missing) =>
                (exit_code = Some(1) /\ raised = "" /\ out.style = "")
            /\ (~badDate /\ ~missing /\ avail) =>
                (exit_code = Some(0) /\ raised = "" /\ out.style # "")

\* -90 <= x < 90 (bound = 90), -180 <= x < 180 (bound = 180).
InHalfOpen(x, bound) ==
    IF x.neg THEN x.ip < bound \/ (x.ip = bound /\ x.fb = <<>>)
    ELSE x.ip < bound

\* C8: what globalhash returns has -90 <= lat < 90 and -180 <= lon < 180,
\* and comes from a hash of graticule (0, 0), whose components are in [0, 1).
C8_GlobalhashRange ==
    (argv.global /\ pc = "centicule") =>
        /\ InHalfOpen(coord[1], 90)
        /\ InHalfOpen(coord[2], 180)
        /\ \A i \in 1..2 : ~loc[i].neg /\ loc[i].ip = 0

\* The digest of sixteen f twice gives the corner (-90, -180); the largest
\* fraction below that gives a latitude just under 90.
C8_Witness ==
    /\ argv.global
    /\ pc = "centicule"
    /\ \/ /\ \A i \in 1..Len(md5_hash) : md5_hash[i] = "f"
          /\ coord = <<Float(TRUE, 90, <<>>), Float(TRUE, 180, <<>>)>>
       \/ /\ SubSeq(md5_hash, 1, HalfLen) = Halves[2]
          /\ coord[1].ip = 89

\* C9: the value float.fromhex gives for a digest half is in [0, 1).
C9_FractionBelowOne ==
    fracs # <<>> => \A i \in 1..2 : ~fracs[i].neg /\ fracs[i].ip = 0

\* C10: a call given an index value queries no source, and its result is
\* made of the position, the date and the index value alone, so is the same
\* for either flag; sources are queried only when no index value is given.
C10_GivenIndexBypassesFetch ==
    /\ call.dow_jones # None =>
          /\ queried = <<>> /\ ret = None /\ key = <<>>
          /\ pc \notin {"get_dow_jones", "query"}
          /\ raised = ""
          /\ md5_hash # <<>> =>
                /\ md5_hash = md5_hexdigest(strftime(CallDate, "-") \o <<"-">>
                                            \o call.dow_jones[1].s)
                /\ lat = call.lat /\ lon = call.lon
          /\ pc = "exit" =>
                /\ loc = hash_to_location(call.lat, call.lon, md5_hash)
                /\ coord = IF call.fn = "globalhash" THEN Rescale(loc) ELSE loc
    /\ queried # <<>> => call.dow_jones = None

\* geohash(37.77, -122.42, 2005-05-26, "10458.68") with no source that
\* answers: nothing was queried and the location is the known one.
C10_Witness ==
    /\ call.fn = "geohash"
    /\ call.dow_jones # None
    /\ call.date = Some(Date(2005, 5, 26))
    /\ call.east = None
    /\ net = NetNone
    /\ pc = "exit"
    /\ queried = <<>>
    /\ loc = <<float_parse(<<"3", "7", ".", "8", "5", "7", "7", "1", "3", "2",
                             "6", "7", "7", "0", "7", "0", "0", "5">>),
               float_parse(<<"-", "1", "2", "2", ".", "5", "4", "4", "5", "4",
                             "3", "0", "6", "9", "5", "5", "9", "2", "8">>)>>
====
